---- MODULE Spec2Model ----
(***************************************************************************)
(* State-machine model of the marathon photobooth backend (src/server.js). *)
(*                                                                         *)
(* One server process: the per-kiosk rate limiter (kioskLimiter), the      *)
(* generation queue (generationQueue, a p-queue configured with            *)
(* concurrency 2, interval 1000 ms, intervalCap 3), the session registry   *)
(* (activeSessions), the kiosk statistics (kioskStats) and the job body    *)
(* (processGeneration).  Every action is one turn of the event loop: a     *)
(* handler together with the promise continuations it triggers.  Time is   *)
(* in milliseconds; a timer that is due fires before any other turn.       *)
(*                                                                         *)
(* The two libraries are modelled by the contract of the options the code  *)
(* passes: p-queue keeps at most `concurrency` tasks running, counts the   *)
(* tasks it starts in the running interval, resets that count every        *)
(* `interval` ms, and keeps its backlog ordered by priority, first-in      *)
(* first-out among equals; express-rate-limit's memory store keeps, per    *)
(* key, a hit count and the time at which that count resets.               *)
(***************************************************************************)
EXTENDS Integers, Sequences, FiniteSets, TLC

(* ------------------------------ constants ------------------------------ *)

Concurrency == 2
Interval == 1000
IntervalCap == 3
WindowMs == 60000
LimiterMax == 5
MaxBacklog == 10
\* the session cleanup: every 30 minutes, sessions started over an hour ago
CleanupEvery == 1800000
RetentionMs == 3600000
\* the image cleanup: at the top of every hour, files older than 4 hours
HourMs == 3600000
MaxAge == 14400000

\* the test driver (test-generations.js): CONFIG.requestDelay
RequestDelay == 2000

\* GET /api/monitor lists the last 20 entries of the registry
RecentK == 20

\* lastActive: null, and a time field that has not been set
Null == -1

\* the kiosks of kioskStats
Registered == {"kiosk-1", "kiosk-2", "kiosk-3", "kiosk-4"}

\* the keys of BACKGROUNDS
BACKGROUNDS ==
    {"amsterdam750-flowermarket", "amsterdam750-goldenage",
     "amsterdam750-rijksmuseum", "future-solarbridge", "future-biodomes",
     "future-smartfinish", "tcs50-firstmarathon", "tcs50-iamsterdam",
     "tcs50-vondelpark"}

(* ------------------------------- bounds -------------------------------- *)

\* requests the clients send in a run of Spec, and how many of them may be
\* between the limiter and the route handler at a time
MaxReq == 2
MaxParsing == 1
\* requests in a run of SpecSlots, SpecQueue, SpecLimiter and SpecBusy
SlotsReq == 3
QueueReq == 5
LimiterReq == 7
BusyReq == 14
\* the clock of Spec and SpecQueue stops here
MaxTime == 1000
\* the clock of SpecLimiter and SpecBusy stops here
LongTime == 120000
\* requests in a run of SpecIntake
IntakeReq == 4
\* requests in a run of SpecReaper, and where its clock stops
ReaperReq == 2
ReaperTime == 7200000
\* requests in a run of SpecArtifacts, and where its clock stops
ArtifactsReq == 1
ArtifactsTime == 3600000

\* requests in a run of SpecHang, and where its clock stops
HangReq == 3
HangTime == 5400000

\* requests of the test driver in a run of SpecDriver, and where its clock stops
DriverReq == 6
DriverTime == 12000

\* requests in a run of SpecBacklog, and how many of its jobs end
BacklogReq == 15
BacklogEnds == 1

\* requests in a run of SpecKeys, and where its clock stops
KeysReq == 7
KeysTime == 60000

\* requests that are with the server at a time in a run of SpecStarve
StarveSlots == 4

\* multipart bodies the clients send
ValidBody == [backgroundId |-> "tcs50-firstmarathon", gender |-> "female", selfie |-> TRUE]
UnknownBackground == [backgroundId |-> "bg-x", gender |-> "female", selfie |-> TRUE]
MissingBackground == [backgroundId |-> "", gender |-> "female", selfie |-> TRUE]
MissingGender == [backgroundId |-> "tcs50-firstmarathon", gender |-> "", selfie |-> TRUE]
MissingSelfie == [backgroundId |-> "tcs50-firstmarathon", gender |-> "female", selfie |-> FALSE]

\* files an earlier run of the server may have left in the outputs directory:
\* at the first image cleanup one is over 4 hours old, one exactly 4 hours
LeftFile(mtime) ==
    [name |-> [kioskId |-> "kiosk-1", time |-> mtime, session |-> 0],
     mtime |-> mtime, content |-> "composite"]
LeftFiles == {LeftFile(HourMs - MaxAge - 1), LeftFile(HourMs - MaxAge)}

VARIABLES
    now,             \* Date.now()
    limiterStore,    \* kioskLimiter's store: key -> [totalHits, resetTime]
    reqs,            \* the requests received so far, in order of arrival
    queue,           \* generationQueue's backlog
    pending,         \* generationQueue.pending
    intervalCount,   \* tasks started in the running interval
    intervalId,      \* the interval timer is armed
    intervalEnd,     \* when the interval timer fires next
    activeSessions,  \* Map sessionId -> session, in insertion order
    kioskStats,      \* kiosk -> [total, completed, failed, lastActive]
    outputs,         \* the files of the outputs directory
    eventLog,        \* history: the queue's add and start events, in order
    sessionCleanupAt, \* when the session cleanup timer fires next
    cleanupAt,       \* when the image cleanup job fires next
    scans            \* the runs of the image cleanup job, in order of firing

vars == <<now, limiterStore, reqs, queue, pending, intervalCount, intervalId,
          intervalEnd, activeSessions, kioskStats, outputs, eventLog,
          sessionCleanupAt, cleanupAt, scans>>

limiterVars == <<limiterStore>>
queueVars == <<queue, pending, intervalCount, intervalId, intervalEnd>>
coreVars == <<activeSessions, kioskStats, outputs>>
reaperVars == <<sessionCleanupAt, cleanupAt, scans>>

(* ------------------------------- helpers ------------------------------- *)

\* (one bucket for every request)
KeyOfOneBucket(h) == "unknown"
\* req.headers['x-kiosk-id'] || 'unknown'
KeyOf(h) == IF h = "" THEN "unknown" ELSE h

\* (no kiosk has priority)
NoPriority(kioskId) == 0
\* { priority: kioskId === 'kiosk-3' ? 1 : 0 }
PriorityOf(kioskId) == IF kioskId = "kiosk-3" THEN 1 ELSE 0

\* {...a, ...b}
Spread(a, b) ==
    [f \in DOMAIN a \cup DOMAIN b |-> IF f \in DOMAIN b THEN b[f] ELSE a[f]]

\* Map.has, Map.get (undefined spreads as the empty object), Map.set, Map.delete
MapHas(m, k) == \E i \in 1..Len(m) : m[i].id = k
MapGet(m, k) ==
    IF MapHas(m, k) THEN (CHOOSE e \in {m[i] : i \in 1..Len(m)} : e.id = k).val
    ELSE <<>>
MapSet(m, k, v) ==
    IF MapHas(m, k)
    THEN [i \in 1..Len(m) |-> IF m[i].id = k THEN [id |-> k, val |-> v] ELSE m[i]]
    ELSE Append(m, [id |-> k, val |-> v])
MapDelete(m, k) == SelectSeq(m, LAMBDA e : e.id # k)

\* The state after start-up, with the files an earlier run of the server left
\* in the outputs directory.
InitWith(files) ==
    /\ now = 0
    /\ limiterStore = <<>>
    /\ reqs = <<>>
    /\ queue = <<>>
    /\ pending = 0
    /\ intervalCount = 0
    /\ intervalId = FALSE
    /\ intervalEnd = 0
    /\ activeSessions = <<>>
    /\ kioskStats = [k \in Registered |->
                        [total |-> 0, completed |-> 0, failed |-> 0, lastActive |-> Null]]
    /\ outputs = files
    /\ eventLog = <<>>
    /\ sessionCleanupAt = CleanupEvery
    /\ cleanupAt = HourMs
    /\ scans = <<>>

Init == InitWith({})

\* a due timer runs before the next turn
IntervalDue == intervalId /\ now >= intervalEnd
TimerDue == IntervalDue \/ now >= sessionCleanupAt \/ now >= cleanupAt

(* --------------------------- the rate limiter -------------------------- *)

\* (a client that is reset when only half of its window is over)
ClientAtHalfWindow(store, key, t) ==
    IF key \in DOMAIN store /\ store[key].resetTime - WindowMs \div 2 > t
    THEN store[key]
    ELSE [totalHits |-> 0, resetTime |-> t + WindowMs]

\* the store's client of a key at time t: a new one, or one whose window is
\* over and is reset, starts at zero hits with resetTime t + windowMs
ClientAt(store, key, t) ==
    IF key \in DOMAIN store /\ store[key].resetTime > t
    THEN store[key]
    ELSE [totalHits |-> 0, resetTime |-> t + WindowMs]

\* store.increment(key)
Increment(store, key, t) ==
    [ClientAt(store, key, t) EXCEPT !.totalHits = @ + 1]

\* (a limit that lets one request too many through)
OverLimitOffByOne(totalHits) == totalHits > LimiterMax + 1
\* the limiter refuses a request whose hit count exceeds max
OverLimit(totalHits) == totalHits > LimiterMax

\* (a limiter that answers and passes the request on all the same)
AfterLimiterCallsNext(refused) == "parsing"
\* the limiter answers a refused request itself; only an admitted one is
\* passed on
AfterLimiter(refused) == IF refused THEN "done" ELSE "parsing"

\* (a refusal that tells the caller which key is over its quota)
TooManyRequestsNamingKey(key) ==
    [status |-> 429, message |-> "Too many requests from this kiosk, please wait",
     kioskId |-> key]
\* the refusal: status 429 and the configured message, whatever the key
TooManyRequests(key) ==
    [status |-> 429, message |-> "Too many requests from this kiosk, please wait"]

\* A request with header h reaches kioskLimiter.  Refused, it is answered 429
\* with the configured message; admitted, it goes on to multer and the route
\* handler (pc "parsing").
Arrive(h, bound) ==
    /\ ~TimerDue
    /\ Len(reqs) < bound
    /\ LET key == KeyOf(h)
           client == Increment(limiterStore, key, now)
       IN /\ limiterStore' = (key :> client) @@ limiterStore
          /\ reqs' = Append(reqs,
                [header |-> h, at |-> now, body |-> <<>>, startTime |-> Null,
                 buffer |-> "none", calls |-> 0,
                 pc |-> AfterLimiter(OverLimit(client.totalHits)),
                 resp |-> IF OverLimit(client.totalHits)
                          THEN TooManyRequests(key)
                          ELSE <<>>])
    /\ UNCHANGED <<now, queueVars, coreVars, eventLog, reaperVars>>

(* ------------------------- the generation queue ------------------------ *)

\* PriorityQueue.enqueue: behind every element of the same or a higher priority
LowerBound(q, priority) ==
    Cardinality({i \in 1..Len(q) : q[i].priority >= priority})

\* (an insertion in front of the elements of the same priority)
EnqueueBeforeEquals(q, el) ==
    LET index == Cardinality({i \in 1..Len(q) : q[i].priority > el.priority})
    IN SubSeq(q, 1, index) \o <<el>> \o SubSeq(q, index + 1, Len(q))

Enqueue(q, el) ==
    IF Len(q) > 0 /\ q[Len(q)].priority >= el.priority
    THEN Append(q, el)
    ELSE LET index == LowerBound(q, el.priority)
         IN SubSeq(q, 1, index) \o <<el>> \o SubSeq(q, index + 1, Len(q))

\* (a cap that lets one task too many through)
IntervalAllowsOneMore(count) == count <= IntervalCap
doesIntervalAllowAnother(count) == count < IntervalCap
\* (a concurrency check that lets one task too many through)
ConcurrentAllowsOneMore(running) == running <= Concurrency
doesConcurrentAllowAnother(running) == running < Concurrency

\* The state a turn works on, as one record.
Snapshot ==
    [queue |-> queue, pending |-> pending, intervalCount |-> intervalCount,
     intervalId |-> intervalId, intervalEnd |-> intervalEnd,
     activeSessions |-> activeSessions, kioskStats |-> kioskStats,
     outputs |-> outputs, reqs |-> reqs, eventLog |-> eventLog]

Install(S) ==
    /\ queue' = S.queue
    /\ pending' = S.pending
    /\ intervalCount' = S.intervalCount
    /\ intervalId' = S.intervalId
    /\ intervalEnd' = S.intervalEnd
    /\ activeSessions' = S.activeSessions
    /\ kioskStats' = S.kioskStats
    /\ outputs' = S.outputs
    /\ reqs' = S.reqs
    /\ eventLog' = S.eventLog

(* --------------------------- processGeneration ------------------------- *)

\* (a job start that opens an entry for a kiosk it does not know)
BumpTotalAnyKiosk(stats, kioskId, t) ==
    IF kioskId \in DOMAIN stats
    THEN [stats EXCEPT ![kioskId].total = @ + 1, ![kioskId].lastActive = t]
    ELSE (kioskId :> [total |-> 1, completed |-> 0, failed |-> 0, lastActive |-> t]) @@ stats
\* (a job start that records the time and forgets to count the job)
BumpTotalUncounted(stats, kioskId, t) ==
    IF kioskId \in DOMAIN stats
    THEN [stats EXCEPT ![kioskId].lastActive = t]
    ELSE stats
\* (a job start that counts the job and forgets to record the time)
BumpTotalUntimed(stats, kioskId, t) ==
    IF kioskId \in DOMAIN stats
    THEN [stats EXCEPT ![kioskId].total = @ + 1]
    ELSE stats
\* kioskStats[kioskId]?.<counter> !== undefined && kioskStats[kioskId].<counter>++
BumpTotal(stats, kioskId, t) ==
    IF kioskId \in DOMAIN stats
    THEN [stats EXCEPT ![kioskId].total = @ + 1, ![kioskId].lastActive = t]
    ELSE stats
\* (a completion counted twice)
BumpCompletedTwice(stats, kioskId) ==
    IF kioskId \in DOMAIN stats
    THEN [stats EXCEPT ![kioskId].completed = @ + 2]
    ELSE stats
BumpCompleted(stats, kioskId) ==
    IF kioskId \in DOMAIN stats
    THEN [stats EXCEPT ![kioskId].completed = @ + 1]
    ELSE stats
\* (a failure counted as a completion)
BumpFailedAsCompleted(stats, kioskId) ==
    IF kioskId \in DOMAIN stats
    THEN [stats EXCEPT ![kioskId].completed = @ + 1]
    ELSE stats
BumpFailed(stats, kioskId) ==
    IF kioskId \in DOMAIN stats
    THEN [stats EXCEPT ![kioskId].failed = @ + 1]
    ELSE stats

\* (one id for every call)
SessionIdShared(r) == 1
\* const sessionId = uuidv4(): a fresh id for every call, here the request's
SessionId(r) == r

\* (a task that fails or completes without giving its slot back)
ReleaseSlotLeaked(running) == running
\* the task's finally block: this.#next() gives the slot back
ReleaseSlot(running) == running - 1

\* (a failure that gives the slot back and leaves the session as it is)
FailJobSessionLeft(S, r, message, t) ==
    LET kioskId == KeyOf(S.reqs[r].header)
    IN [S EXCEPT
          !.kioskStats = BumpFailed(@, kioskId),
          !.pending = ReleaseSlot(@),
          !.reqs[r].pc = "done",
          !.reqs[r].resp =
              [status |-> 500, error |-> "Failed to generate image",
               details |-> message, kioskId |-> kioskId]]

\* The catch block of processGeneration for job r at time t, then the queue's
\* finally (the slot is given back) and the route handler's catch (500).
FailJob(S, r, message, t) ==
    LET kioskId == KeyOf(S.reqs[r].header)
    IN [S EXCEPT
          !.activeSessions =
              MapSet(@, SessionId(r), Spread(MapGet(@, SessionId(r)),
                  [status |-> "failed", error |-> message, endTime |-> t])),
          !.kioskStats = BumpFailed(@, kioskId),
          !.pending = ReleaseSlot(@),
          !.reqs[r].pc = "done",
          !.reqs[r].resp =
              [status |-> 500, error |-> "Failed to generate image",
               details |-> message, kioskId |-> kioskId]]

\* The success path of processGeneration after writeFile, then the queue's
\* finally and the route handler's res.json(result).
CompleteJob(S, r, t) ==
    LET kioskId == KeyOf(S.reqs[r].header)
        filename == [kioskId |-> kioskId, time |-> t, session |-> SessionId(r)]
        startTime == S.reqs[r].startTime
    IN [S EXCEPT
          !.outputs = @ \cup {[name |-> filename, mtime |-> t,
                               content |-> S.reqs[r].buffer]},
          !.activeSessions =
              MapSet(@, SessionId(r), Spread(MapGet(@, SessionId(r)),
                  [status |-> "completed", endTime |-> t, outputFile |-> filename])),
          !.kioskStats = BumpCompleted(@, kioskId),
          !.pending = ReleaseSlot(@),
          !.reqs[r].pc = "done",
          !.reqs[r].resp =
              [status |-> 200, success |-> TRUE, imageUrl |-> filename,
               sessionId |-> SessionId(r), kioskId |-> kioskId, queueSize |-> Len(S.queue),
               processingTime |-> t - startTime]]

\* The queue starts the task at the head of its backlog at time t: the task
\* body runs up to its first real suspension.  processGeneration counts the
\* job, opens its session and resolves the background; an unknown background
\* throws before anything is awaited, so the job fails within the same turn.
RunJob(S, t) ==
    LET r == Head(S.queue).run
        kioskId == KeyOf(S.reqs[r].header)
        body == S.reqs[r].body
        started ==
            [S EXCEPT
               !.queue = Tail(@),
               !.pending = @ + 1,
               !.intervalCount = @ + 1,
               !.intervalId = TRUE,
               !.intervalEnd = IF S.intervalId THEN @ ELSE t + Interval,
               !.kioskStats = BumpTotal(@, kioskId, t),
               !.activeSessions =
                   MapSet(@, SessionId(r),
                       [kioskId |-> kioskId, startTime |-> t, status |-> "processing",
                        backgroundId |-> body.backgroundId, gender |-> body.gender,
                        prominence |-> "medium"]),
               !.eventLog = Append(@, [ev |-> "start", id |-> r, at |-> t]),
               !.reqs[r].startTime = t,
               !.reqs[r].pc = "readFile"]
    IN IF body.backgroundId \in BACKGROUNDS
       THEN started
       ELSE FailJob(started, r, "Invalid background selection", t)

CanStart(S) ==
    /\ Len(S.queue) > 0
    /\ doesIntervalAllowAnother(S.intervalCount)
    /\ doesConcurrentAllowAnother(S.pending)

\* tryToStartAnother, repeated for as long as it starts a task
RECURSIVE ProcessQueue(_, _)
ProcessQueue(S, t) ==
    IF CanStart(S) THEN ProcessQueue(RunJob(S, t), t) ELSE S

(* ------------------------------- actions ------------------------------- *)

\* (a validation that forgets the background)
MissingFieldsButBackground(body) == body.gender = "" \/ ~body.selfie
\* !backgroundId || !gender || !selfieBuffer
MissingFields(body) == body.backgroundId = "" \/ body.gender = "" \/ ~body.selfie

\* (a threshold that lets one backlog size too many through)
BusyOffByOne(size) == size > MaxBacklog + 1
\* generationQueue.size > 10
Busy(size) == size > MaxBacklog

\* The route handler of POST /api/generate for request r, whose multipart
\* body multer has parsed: validation (400), the backlog check (503), then
\* generationQueue.add, which enqueues the task and tries to start one.
Handle(r, body) ==
    /\ ~TimerDue
    /\ r \in 1..Len(reqs)
    /\ reqs[r].pc = "parsing"
    /\ IF MissingFields(body)
       THEN /\ reqs' = [reqs EXCEPT ![r].body = body, ![r].pc = "done",
                           ![r].resp = [status |-> 400, error |-> "Missing required fields"]]
            /\ UNCHANGED <<queueVars, coreVars, eventLog>>
       ELSE IF Busy(Len(queue))
       THEN /\ reqs' = [reqs EXCEPT ![r].body = body, ![r].pc = "done",
                           ![r].resp = [status |-> 503,
                                        error |-> "Server is busy, please try again",
                                        queueSize |-> Len(queue)]]
            /\ UNCHANGED <<queueVars, coreVars, eventLog>>
       ELSE LET kioskId == KeyOf(reqs[r].header)
                added == [Snapshot EXCEPT
                            !.reqs[r].body = body,
                            !.reqs[r].pc = "queued",
                            !.queue = Enqueue(@, [run |-> r, priority |-> PriorityOf(kioskId)]),
                            !.eventLog = Append(@, [ev |-> "add", id |-> r, at |-> now])]
            IN Install(ProcessQueue(added, now))
    /\ UNCHANGED <<now, limiterVars, reaperVars>>

\* await model.generateContent([prompt, personPart, envPart]): the call is
\* made, and the request's record counts it
CallGenerate(S, r, t) ==
    [S EXCEPT !.reqs[r].pc = "generate", !.reqs[r].calls = @ + 1]

\* fs.readFile of the background image returns, and the job goes on to the
\* generation call, or throws
ReadFile(r, ok) ==
    /\ ~TimerDue
    /\ r \in 1..Len(reqs)
    /\ reqs[r].pc = "readFile"
    /\ IF ok
       THEN Install(CallGenerate(Snapshot, r, now))
       ELSE Install(ProcessQueue(FailJob(Snapshot, r, "ENOENT", now), now))
    /\ UNCHANGED <<now, limiterVars, reaperVars>>

\* (a generation call that is made again when it throws)
GenerateContentRetrying(r, outcome) ==
    /\ ~TimerDue
    /\ r \in 1..Len(reqs)
    /\ reqs[r].pc = "generate"
    /\ CASE outcome = "image" ->
              /\ reqs' = [reqs EXCEPT ![r].pc = "overlay", ![r].buffer = "generated"]
              /\ UNCHANGED <<queueVars, coreVars, eventLog>>
         [] outcome = "noImage" ->
              Install(ProcessQueue(FailJob(Snapshot, r, "No image generated", now), now))
         [] outcome = "error" ->
              Install(CallGenerate(Snapshot, r, now))
    /\ UNCHANGED <<now, limiterVars, reaperVars>>

\* model.generateContent returns a result with an image part, returns a
\* result without one, or throws
GenerateContent(r, outcome) ==
    /\ ~TimerDue
    /\ r \in 1..Len(reqs)
    /\ reqs[r].pc = "generate"
    /\ CASE outcome = "image" ->
              /\ reqs' = [reqs EXCEPT ![r].pc = "overlay", ![r].buffer = "generated"]
              /\ UNCHANGED <<queueVars, coreVars, eventLog>>
         [] outcome = "noImage" ->
              Install(ProcessQueue(FailJob(Snapshot, r, "No image generated", now), now))
         [] outcome = "error" ->
              Install(ProcessQueue(FailJob(Snapshot, r, "generateContent failed", now), now))
    /\ UNCHANGED <<now, limiterVars, reaperVars>>

\* (an overlay step whose failure is thrown into the job)
ApplyOverlayThrowing(r, outcome) ==
    /\ ~TimerDue
    /\ r \in 1..Len(reqs)
    /\ reqs[r].pc = "overlay"
    /\ IF outcome = "composite"
       THEN /\ reqs' = [reqs EXCEPT ![r].pc = "writeFile", ![r].buffer = "composite"]
            /\ UNCHANGED <<queueVars, coreVars, eventLog>>
       ELSE Install(ProcessQueue(FailJob(Snapshot, r, "overlay failed", now), now))
    /\ UNCHANGED <<now, limiterVars, reaperVars>>

\* applyOverlay returns the composite, or the buffer it was given when the
\* overlay file is missing or sharp throws
ApplyOverlay(r, outcome) ==
    /\ ~TimerDue
    /\ r \in 1..Len(reqs)
    /\ reqs[r].pc = "overlay"
    /\ reqs' = [reqs EXCEPT ![r].pc = "writeFile",
                   ![r].buffer = IF outcome = "composite" THEN "composite" ELSE @]
    /\ UNCHANGED <<now, limiterVars, queueVars, coreVars, eventLog, reaperVars>>

\* fs.writeFile of the output returns or throws
WriteFile(r, ok) ==
    /\ ~TimerDue
    /\ r \in 1..Len(reqs)
    /\ reqs[r].pc = "writeFile"
    /\ IF ok
       THEN Install(ProcessQueue(CompleteJob(Snapshot, r, now), now))
       ELSE Install(ProcessQueue(FailJob(Snapshot, r, "EACCES", now), now))
    /\ UNCHANGED <<now, limiterVars, reaperVars>>

\* (a tick that gives up on the tasks still running and takes their slots back)
OnIntervalAtCancelling(S, t) ==
    LET reset == [S EXCEPT
                     !.intervalId = S.pending > 0 \/ S.intervalCount > 0,
                     !.intervalEnd = t + Interval,
                     !.intervalCount = 0,
                     !.pending = 0]
    IN ProcessQueue(reset, t)

\* The queue's interval timer fires at time t: the interval count starts
\* again and the queue starts what it may.  A tick that finds nothing started
\* in the last interval and nothing running stops the timer.
OnIntervalAt(S, t) ==
    LET idle == S.intervalCount = 0 /\ S.pending = 0
        reset == [S EXCEPT
                     !.intervalId = ~idle,
                     !.intervalEnd = IF idle THEN @ ELSE t + Interval,
                     !.intervalCount = 0]
    IN ProcessQueue(reset, t)

OnInterval ==
    /\ IntervalDue
    /\ Install(OnIntervalAt(Snapshot, now))
    /\ UNCHANGED <<now, limiterVars, reaperVars>>

\* the timer's ticks that fall before time t, in order; after a tick that
\* starts nothing while tasks run, the ticks that follow only move the timer
RECURSIVE Elapse(_, _)
Elapse(S, t) ==
    IF S.intervalId /\ S.intervalEnd < t
    THEN LET ticked == OnIntervalAt(S, S.intervalEnd)
         IN IF ticked.intervalCount = 0 /\ ticked.pending > 0 /\ ticked.intervalEnd < t
            THEN [ticked EXCEPT !.intervalEnd =
                     @ + ((t - @ + Interval - 1) \div Interval) * Interval]
            ELSE Elapse(ticked, t)
    ELSE S

\* Time passes by d with no other turn than the ticks of the interval timer
\* that fall before its end; a tick at the very end is left to OnInterval.
Tick(d, horizon) ==
    /\ ~TimerDue
    /\ now + d <= horizon
    /\ now + d <= sessionCleanupAt
    /\ now + d <= cleanupAt
    /\ now' = now + d
    /\ Install(Elapse(Snapshot, now + d))
    /\ UNCHANGED <<limiterVars, reaperVars>>

(* ------------------------------ the reapers ---------------------------- *)

\* session.startTime < oneHourAgo, which is false of a session without one
IsOld(session, oneHourAgo) ==
    "startTime" \in DOMAIN session /\ session.startTime < oneHourAgo

\* The session cleanup timer fires: every session that is old is deleted.
SessionCleanup ==
    /\ now >= sessionCleanupAt
    /\ LET oneHourAgo == now - RetentionMs
       IN activeSessions' = SelectSeq(activeSessions, LAMBDA e : ~IsOld(e.val, oneHourAgo))
    /\ sessionCleanupAt' = sessionCleanupAt + CleanupEvery
    /\ UNCHANGED <<now, limiterVars, reqs, queueVars, kioskStats, outputs, eventLog,
                   cleanupAt, scans>>

\* the orders in which fs.readdir may list a set of names
RECURSIVE OrdersOf(_)
OrdersOf(names) ==
    IF names = {} THEN {<<>>}
    ELSE UNION {{<<n>> \o rest : rest \in OrdersOf(names \ {n})} : n \in names}

Orders(files) == OrdersOf({f.name : f \in files})

FileExists(files, name) == \E f \in files : f.name = name
FileNamed(files, name) == CHOOSE f \in files : f.name = name

\* (a file is deleted as soon as it is 4 hours old)
TooOldOrEqual(t, mtime) == t - mtime >= MaxAge
\* now - stats.mtimeMs > maxAge
TooOld(t, mtime) == t - mtime > MaxAge

\* The image cleanup job fires and calls fs.readdir.
CleanupStart ==
    /\ now >= cleanupAt
    /\ scans' = Append(scans,
          [pc |-> "readdir", now |-> Null, files |-> <<>>, index |-> 0, error |-> "",
           listed |-> {}, deleted |-> {}, left |-> {}])
    /\ cleanupAt' = cleanupAt + HourMs
    /\ UNCHANGED <<now, limiterVars, reqs, queueVars, coreVars, eventLog, sessionCleanupAt>>

\* the for loop goes on to the file after files[index], or ends; a scan keeps
\* for the record what the directory held when it was listed (listed), what
\* the scan deleted (deleted) and what the directory holds at its end (left)
NextFile(scan, dir) ==
    IF scan.index < Len(scan.files)
    THEN [scan EXCEPT !.index = @ + 1, !.pc = "stat"]
    ELSE [scan EXCEPT !.pc = "done", !.left = dir]

\* the catch block around the whole scan: the error is logged, the run ends
CatchCleanupError(scan, message) ==
    [scan EXCEPT !.pc = "failed", !.error = message]

\* fs.readdir of scan s returns the files in some order, or throws; the run
\* takes its `now` and calls fs.stat on the first file.
Readdir(s, files, ok) ==
    /\ ~TimerDue
    /\ s \in 1..Len(scans)
    /\ scans[s].pc = "readdir"
    /\ scans' = [scans EXCEPT ![s] =
          IF ok
          THEN NextFile([@ EXCEPT !.files = files, !.now = now, !.listed = outputs], outputs)
          ELSE CatchCleanupError(@, "ENOENT")]
    /\ UNCHANGED <<now, limiterVars, reqs, queueVars, coreVars, eventLog,
                   sessionCleanupAt, cleanupAt>>

\* fs.stat of the file scan s is at returns or throws; a file that is too
\* old is unlinked, any other is passed over.
Stat(s, ok) ==
    /\ ~TimerDue
    /\ s \in 1..Len(scans)
    /\ scans[s].pc = "stat"
    /\ LET file == scans[s].files[scans[s].index]
       IN scans' = [scans EXCEPT ![s] =
             IF ok /\ FileExists(outputs, file)
             THEN IF TooOld(@.now, FileNamed(outputs, file).mtime)
                  THEN [@ EXCEPT !.pc = "unlink"]
                  ELSE NextFile(@, outputs)
             ELSE CatchCleanupError(@, "stat failed")]
    /\ UNCHANGED <<now, limiterVars, reqs, queueVars, coreVars, eventLog,
                   sessionCleanupAt, cleanupAt>>

\* fs.unlink of the file scan s is at returns or throws.
Unlink(s, ok) ==
    /\ ~TimerDue
    /\ s \in 1..Len(scans)
    /\ scans[s].pc = "unlink"
    /\ LET file == scans[s].files[scans[s].index]
       IN IF ok /\ FileExists(outputs, file)
          THEN /\ outputs' = outputs \ {FileNamed(outputs, file)}
               /\ scans' = [scans EXCEPT ![s] =
                     NextFile([@ EXCEPT !.deleted = @ \cup {FileNamed(outputs, file)}],
                              outputs \ {FileNamed(outputs, file)})]
          ELSE /\ outputs' = outputs
               /\ scans' = [scans EXCEPT ![s] = CatchCleanupError(@, "unlink failed")]
    /\ UNCHANGED <<now, limiterVars, reqs, queueVars, activeSessions, kioskStats,
                   eventLog, sessionCleanupAt, cleanupAt>>

\* The turns of a run in which the clients send at most c.maxReq requests,
\* at most c.maxParsing of them between the limiter and the route handler at
\* a time, with headers c.headers ("" is a request without X-Kiosk-Id) and
\* bodies c.bodies, and in which the collaborators answer as c allows.
ArriveOf(c) ==
    \E h \in c.headers :
        /\ Cardinality({r \in 1..Len(reqs) : reqs[r].pc = "parsing"}) < c.maxParsing
        /\ Arrive(h, c.maxReq)
HandleOf(c) == \E r \in 1..c.maxReq, body \in c.bodies : Handle(r, body)
ReadFileOf(c) == \E r \in 1..c.maxReq, ok \in c.readFile : ReadFile(r, ok)
GenerateContentOf(c) ==
    \E r \in 1..c.maxReq, outcome \in c.generate : GenerateContent(r, outcome)
ApplyOverlayOf(c) ==
    \E r \in 1..c.maxReq, outcome \in c.overlay : ApplyOverlay(r, outcome)
WriteFileOf(c) == \E r \in 1..c.maxReq, ok \in c.writeFile : WriteFile(r, ok)
TickOf(c) == \E d \in c.steps : Tick(d, c.horizon)
ReaddirOf(c) ==
    \E s \in 1..Len(scans), files \in Orders(outputs), ok \in c.readdir : Readdir(s, files, ok)
StatOf(c) == \E s \in 1..Len(scans), ok \in c.stat : Stat(s, ok)
UnlinkOf(c) == \E s \in 1..Len(scans), ok \in c.unlink : Unlink(s, ok)

\* Spec: the whole life of a few requests.
Run ==
    [maxReq |-> MaxReq, maxParsing |-> MaxParsing, headers |-> {"kiosk-1", ""},
     bodies |-> {ValidBody, UnknownBackground, MissingBackground},
     readFile |-> BOOLEAN, generate |-> {"image", "noImage", "error"},
     overlay |-> {"composite", "missing", "error"}, writeFile |-> BOOLEAN,
     steps |-> {1000}, horizon |-> MaxTime]

Next ==
    \/ ArriveOf(Run)
    \/ HandleOf(Run)
    \/ ReadFileOf(Run)
    \/ GenerateContentOf(Run)
    \/ ApplyOverlayOf(Run)
    \/ WriteFileOf(Run)
    \/ OnInterval
    \/ TickOf(Run)

Spec == Init /\ [][Next]_vars

\* SpecSlots: one kiosk whose jobs complete or fail at the generation call.
SlotsRun ==
    [maxReq |-> SlotsReq, maxParsing |-> MaxParsing, headers |-> {"kiosk-1"},
     bodies |-> {ValidBody},
     readFile |-> {TRUE}, generate |-> {"image", "error"},
     overlay |-> {"composite"}, writeFile |-> {TRUE},
     steps |-> {500}, horizon |-> MaxTime]

NextSlots ==
    \/ ArriveOf(SlotsRun)
    \/ HandleOf(SlotsRun)
    \/ ReadFileOf(SlotsRun)
    \/ GenerateContentOf(SlotsRun)
    \/ ApplyOverlayOf(SlotsRun)
    \/ WriteFileOf(SlotsRun)
    \/ OnInterval
    \/ TickOf(SlotsRun)

SpecSlots == Init /\ [][NextSlots]_vars

\* SpecQueue: a second of load from an ordinary and the priority kiosk.  The
\* generation call takes seconds, so a job with a known background keeps its
\* slot to the end of the run; a job with an unknown one fails as it starts.
QueueRun ==
    [maxReq |-> QueueReq, maxParsing |-> MaxParsing, headers |-> {"kiosk-1", "kiosk-3"},
     bodies |-> {ValidBody, UnknownBackground},
     steps |-> {1000}, horizon |-> MaxTime]

NextQueue ==
    \/ ArriveOf(QueueRun)
    \/ HandleOf(QueueRun)
    \/ OnInterval
    \/ TickOf(QueueRun)

SpecQueue == Init /\ [][NextQueue]_vars

\* SpecLimiter: the limiter alone; the uploads of the requests it admits
\* are still on their way when the run ends.
LimiterRun ==
    [maxReq |-> LimiterReq, maxParsing |-> LimiterReq, headers |-> {"kiosk-1", ""},
     steps |-> {WindowMs \div 2}, horizon |-> LongTime]

NextLimiter ==
    \/ ArriveOf(LimiterRun)
    \/ TickOf(LimiterRun)

SpecLimiter == Init /\ [][NextLimiter]_vars

\* SpecBusy: one kiosk keeps sending, window after window, while the
\* generation calls of the two running jobs do not return.
BusyRun ==
    [maxReq |-> BusyReq, maxParsing |-> MaxParsing, headers |-> {"kiosk-1"},
     bodies |-> {ValidBody},
     steps |-> {WindowMs}, horizon |-> LongTime]

NextBusy ==
    \/ ArriveOf(BusyRun)
    \/ HandleOf(BusyRun)
    \/ OnInterval
    \/ TickOf(BusyRun)

SpecBusy == Init /\ [][NextBusy]_vars

\* SpecReaper: two hours of session cleanup while generation calls take
\* their time and then fail; nothing is written to the outputs directory.
ReaperRun ==
    [maxReq |-> ReaperReq, maxParsing |-> MaxParsing, headers |-> {"kiosk-1"},
     bodies |-> {ValidBody},
     readFile |-> {TRUE}, generate |-> {"error"}, readdir |-> {TRUE},
     steps |-> {CleanupEvery}, horizon |-> ReaperTime]

NextReaper ==
    \/ ArriveOf(ReaperRun)
    \/ HandleOf(ReaperRun)
    \/ ReadFileOf(ReaperRun)
    \/ GenerateContentOf(ReaperRun)
    \/ OnInterval
    \/ TickOf(ReaperRun)
    \/ SessionCleanup
    \/ CleanupStart
    \/ ReaddirOf(ReaperRun)

SpecReaper == Init /\ [][NextReaper]_vars

\* SpecArtifacts: the first image cleanup over a directory that holds
\* files of an earlier run, while a job writes a new file; fs.readdir,
\* fs.stat and fs.unlink may throw.
ArtifactsRun ==
    [maxReq |-> ArtifactsReq, maxParsing |-> MaxParsing, headers |-> {"kiosk-1"},
     bodies |-> {ValidBody},
     readFile |-> {TRUE}, generate |-> {"image"}, overlay |-> {"composite"},
     writeFile |-> {TRUE}, readdir |-> BOOLEAN, stat |-> BOOLEAN, unlink |-> BOOLEAN,
     steps |-> {CleanupEvery}, horizon |-> ArtifactsTime]

InitArtifacts == \E files \in SUBSET LeftFiles : InitWith(files)

NextArtifacts ==
    \/ ArriveOf(ArtifactsRun)
    \/ HandleOf(ArtifactsRun)
    \/ ReadFileOf(ArtifactsRun)
    \/ GenerateContentOf(ArtifactsRun)
    \/ ApplyOverlayOf(ArtifactsRun)
    \/ WriteFileOf(ArtifactsRun)
    \/ OnInterval
    \/ TickOf(ArtifactsRun)
    \/ SessionCleanup
    \/ CleanupStart
    \/ ReaddirOf(ArtifactsRun)
    \/ StatOf(ArtifactsRun)
    \/ UnlinkOf(ArtifactsRun)

SpecArtifacts == InitArtifacts /\ [][NextArtifacts]_vars

\* SpecIntake: one kiosk sends complete and incomplete forms; the generation
\* calls of the jobs that start do not return within the run.
IntakeRun ==
    [maxReq |-> IntakeReq, maxParsing |-> MaxParsing, headers |-> {"kiosk-1"},
     bodies |-> {ValidBody, MissingBackground, MissingGender, MissingSelfie},
     steps |-> {1000}, horizon |-> MaxTime]

NextIntake ==
    \/ ArriveOf(IntakeRun)
    \/ HandleOf(IntakeRun)
    \/ OnInterval
    \/ TickOf(IntakeRun)

SpecIntake == Init /\ [][NextIntake]_vars

\* SpecHang: an hour and a half in which generation calls throw or do not
\* return at all, while the timers of the queue and of the two cleanups fire.
HangRun ==
    [maxReq |-> HangReq, maxParsing |-> MaxParsing, headers |-> {"kiosk-1"},
     bodies |-> {ValidBody},
     readFile |-> {TRUE}, generate |-> {"error"}, readdir |-> {TRUE},
     steps |-> {CleanupEvery}, horizon |-> HangTime]

NextHang ==
    \/ ArriveOf(HangRun)
    \/ HandleOf(HangRun)
    \/ ReadFileOf(HangRun)
    \/ GenerateContentOf(HangRun)
    \/ OnInterval
    \/ TickOf(HangRun)
    \/ SessionCleanup
    \/ CleanupStart
    \/ ReaddirOf(HangRun)

SpecHang == Init /\ [][NextHang]_vars

\* SpecBacklog: one kiosk keeps sending, window after window; of the jobs
\* that have started, a few end at any moment of the run and the others go on.
BacklogRun ==
    [maxReq |-> BacklogReq, maxParsing |-> MaxParsing, headers |-> {"kiosk-1"},
     bodies |-> {ValidBody}, readFile |-> {FALSE},
     steps |-> {WindowMs}, horizon |-> LongTime]

NextBacklog ==
    \/ ArriveOf(BacklogRun)
    \/ HandleOf(BacklogRun)
    \/ /\ Cardinality({r \in 1..Len(reqs) :
                           reqs[r].startTime # Null /\ reqs[r].pc = "done"}) < BacklogEnds
       /\ ReadFileOf(BacklogRun)
    \/ OnInterval
    \/ TickOf(BacklogRun)

SpecBacklog == Init /\ [][NextBacklog]_vars

\* SpecKeys: the limiter alone, with requests of a kiosk, requests without
\* the X-Kiosk-Id header and requests whose header says 'unknown'.
KeysRun ==
    [maxReq |-> KeysReq, maxParsing |-> KeysReq, headers |-> {"kiosk-1", "", "unknown"},
     steps |-> {WindowMs}, horizon |-> KeysTime]

NextKeys ==
    \/ ArriveOf(KeysRun)
    \/ TickOf(KeysRun)

SpecKeys == Init /\ [][NextKeys]_vars

(* ---------------------- the test driver (runTests) --------------------- *)

\* the time at which the server answered request r of the driver: the limiter
\* answers on arrival, a job when it completes or fails
AnsweredAt(r) ==
    IF reqs[r].startTime = Null THEN reqs[r].at
    ELSE MapGet(activeSessions, SessionId(r)).endTime

\* The loop of runTests: generateImage posts one form with X-Kiosk-Id
\* CONFIG.kioskId and awaits the response, whatever it is; then the loop
\* awaits delay(CONFIG.requestDelay) and goes on to the next form.
DriverSend(bound) ==
    /\ IF Len(reqs) = 0 THEN TRUE
       ELSE /\ reqs[Len(reqs)].pc = "done"
            /\ now >= AnsweredAt(Len(reqs)) + RequestDelay
    /\ Arrive("test-script", bound)

\* SpecDriver: the test driver is the server's one client; its forms are
\* complete, with backgrounds the server listed.
DriverRun ==
    [maxReq |-> DriverReq, bodies |-> {ValidBody},
     readFile |-> BOOLEAN, generate |-> {"image", "error"},
     overlay |-> {"composite"}, writeFile |-> {TRUE},
     steps |-> {RequestDelay}, horizon |-> DriverTime]

NextDriver ==
    \/ DriverSend(DriverReq)
    \/ HandleOf(DriverRun)
    \/ ReadFileOf(DriverRun)
    \/ GenerateContentOf(DriverRun)
    \/ ApplyOverlayOf(DriverRun)
    \/ WriteFileOf(DriverRun)
    \/ OnInterval
    \/ TickOf(DriverRun)

SpecDriver == Init /\ [][NextDriver]_vars

(* -------------------------- the scheduler's view ----------------------- *)

\* SpecStarve is the server seen over an unbounded time, kept finite by
\* keeping only what admission and scheduling read: the limiter's store, the
\* queue, and the requests that have no response yet.  What the server only
\* records (the registry, the kiosk stats, the outputs, the history, the
\* records of answered requests) is dropped after every turn, and times are
\* kept relative to the present, which is sound because the code only ever
\* compares a stored time with Date.now().  The two cleanups read none of
\* this and are left out.

\* the slot of a request that has been answered
Answered ==
    [header |-> "", at |-> 0, body |-> <<>>, startTime |-> Null, buffer |-> "none",
     calls |-> 0, pc |-> "done", resp |-> <<>>]

\* a request the limiter has admitted
Admitted(h) ==
    [header |-> h, at |-> 0, body |-> <<>>, startTime |-> Null, buffer |-> "none",
     calls |-> 0, pc |-> "parsing", resp |-> <<>>]

\* the scheduling state of S, seen from d milliseconds later
Scheduling(S, d) ==
    [S EXCEPT
        !.reqs = [r \in 1..Len(S.reqs) |->
                     IF S.reqs[r].pc = "done" THEN Answered
                     ELSE [S.reqs[r] EXCEPT
                              !.at = 0, !.calls = 0,
                              !.startTime = IF @ = Null THEN Null ELSE 0]],
        !.intervalEnd = IF S.intervalId THEN @ - d ELSE 0,
        !.activeSessions = <<>>,
        !.kioskStats = [k \in Registered |->
                           [total |-> 0, completed |-> 0, failed |-> 0, lastActive |-> Null]],
        !.outputs = {},
        !.eventLog = <<>>]

\* the turn's outcome S is installed as it is seen d milliseconds later
Kept(S, d) ==
    \E outcome \in {S} : \E kept \in {Scheduling(outcome, d)} : Install(kept)

\* the limiter's store d milliseconds later: the clients whose window is over
\* are gone
StoreAfter(store, d) ==
    LET live == {k \in DOMAIN store : store[k].resetTime > d}
    IN IF live = {} THEN <<>>
       ELSE [k \in live |-> [store[k] EXCEPT !.resetTime = @ - d]]

\* the slots of the requests a kiosk has with the server: kiosk-1, an
\* ordinary booth, sends its next request when the one before is answered;
\* kiosk-3 has up to StarveSlots - 1 requests with the server at a time
SlotsOf(h) == IF h = "kiosk-3" THEN 2..StarveSlots ELSE {1}

\* A kiosk that keeps within its rate limit sends a request: the limiter
\* counts and admits it.
StarveArrive(h) ==
    /\ ~TimerDue
    /\ Cardinality({r \in 1..Len(reqs) : reqs[r].pc = "parsing"}) < MaxParsing
    /\ LET key == KeyOf(h)
           client == Increment(limiterStore, key, now)
           free == {r \in SlotsOf(h) : reqs[r].pc = "done"}
       IN /\ ~OverLimit(client.totalHits)
          /\ free # {}
          /\ reqs' = [reqs EXCEPT ![CHOOSE r \in free : \A q \in free : r <= q] =
                                     Admitted(h)]
          /\ limiterStore' = (key :> client) @@ limiterStore
    /\ UNCHANGED <<now, queueVars, coreVars, eventLog, reaperVars>>

\* the route handler, for a complete form: the backlog check, then the add
StarveHandle(r) ==
    /\ ~TimerDue
    /\ r \in 1..Len(reqs)
    /\ reqs[r].pc = "parsing"
    /\ IF Busy(Len(queue))
       THEN Kept([Snapshot EXCEPT !.reqs[r].pc = "done"], 0)
       ELSE LET kioskId == KeyOf(reqs[r].header)
                added == [Snapshot EXCEPT
                            !.reqs[r].body = ValidBody,
                            !.reqs[r].pc = "queued",
                            !.queue = Enqueue(@, [run |-> r, priority |-> PriorityOf(kioskId)])]
            IN Kept(ProcessQueue(added, now), 0)
    /\ UNCHANGED <<now, limiterVars, reaperVars>>

\* fs.readFile returns and the generation call is made
StarveReadFile(r) ==
    /\ ~TimerDue
    /\ r \in 1..Len(reqs)
    /\ reqs[r].pc = "readFile"
    /\ Kept(CallGenerate(Snapshot, r, now), 0)
    /\ UNCHANGED <<now, limiterVars, reaperVars>>

\* the generation call returns (here: it throws), the job ends and its slot
\* goes to the head of the backlog
StarveGenerate(r) ==
    /\ ~TimerDue
    /\ r \in 1..Len(reqs)
    /\ reqs[r].pc = "generate"
    /\ Kept(ProcessQueue(FailJob(Snapshot, r, "generateContent failed", now), now), 0)
    /\ UNCHANGED <<now, limiterVars, reaperVars>>

\* Time passes by d; the ticks of the interval timer that fall within d, the
\* one at its very end included, fire on the way.
StarveTick(d) ==
    /\ ~TimerDue
    /\ Kept(Elapse(Snapshot, now + d + 1), d)
    /\ limiterStore' = StoreAfter(limiterStore, d)
    /\ UNCHANGED <<now, reaperVars>>

NextStarve ==
    \/ \E h \in {"kiosk-1", "kiosk-3"} : StarveArrive(h)
    \/ \E r \in 1..StarveSlots : StarveHandle(r)
    \/ \E r \in 1..StarveSlots : StarveReadFile(r)
    \/ \E r \in 1..StarveSlots : StarveGenerate(r)
    \/ StarveTick(WindowMs)

\* the turn request r is waiting for: the route handler once its form is
\* parsed, the return of the call its job awaits once the job has started
StarveStep(r) == StarveHandle(r) \/ StarveReadFile(r) \/ StarveGenerate(r)

\* Fairness: time goes on, and the turn a request is waiting for comes: a
\* parsed form reaches the route handler, and every call a job awaits
\* returns.  No timer is ever left due in this specification, so each of
\* these turns, once it can be taken, can be taken until it is.
FairStarve ==
    /\ WF_vars(StarveTick(WindowMs))
    /\ \A r \in 1..StarveSlots : WF_vars(StarveStep(r))

InitStarve ==
    /\ now = 0
    /\ limiterStore = <<>>
    /\ reqs = [r \in 1..StarveSlots |-> Answered]
    /\ queue = <<>>
    /\ pending = 0
    /\ intervalCount = 0
    /\ intervalId = FALSE
    /\ intervalEnd = 0
    /\ activeSessions = <<>>
    /\ kioskStats = [k \in Registered |->
                        [total |-> 0, completed |-> 0, failed |-> 0, lastActive |-> Null]]
    /\ outputs = {}
    /\ eventLog = <<>>
    /\ sessionCleanupAt = CleanupEvery
    /\ cleanupAt = HourMs
    /\ scans = <<>>

SpecStarve == InitStarve /\ [][NextStarve]_vars /\ FairStarve

(* ------------------------------- history ------------------------------- *)

\* the place of request r's add or start event in the history
Has(ev, r) == \E i \in 1..Len(eventLog) : eventLog[i].ev = ev /\ eventLog[i].id = r
Pos(ev, r) == CHOOSE i \in 1..Len(eventLog) : eventLog[i].ev = ev /\ eventLog[i].id = r

\* the tasks that began executing at a time in [lo, hi)
StartsIn(lo, hi) ==
    {i \in 1..Len(eventLog) :
        eventLog[i].ev = "start" /\ lo <= eventLog[i].at /\ eventLog[i].at < hi}

\* the jobs that have started and not finished
Running ==
    {r \in 1..Len(reqs) : reqs[r].pc \in {"readFile", "generate", "overlay", "writeFile"}}

\* the status of the response to request r, 0 while there is none
StatusOf(r) == IF "status" \in DOMAIN reqs[r].resp THEN reqs[r].resp.status ELSE 0

\* the limiter refused request r
Refused(r) == StatusOf(r) = 429

SameKey(p, r) == KeyOf(reqs[p].header) = KeyOf(reqs[r].header)

\* The start of the limiter window request r falls in, read off the arrival
\* times alone: a key's first request opens a window of WindowMs, and so does
\* its first request after the window before has ended.
RECURSIVE WindowStart(_)
WindowStart(r) ==
    LET earlier == {p \in 1..(r - 1) : SameKey(p, r)}
    IN IF earlier = {} THEN reqs[r].at
       ELSE LET p == CHOOSE p \in earlier : \A q \in earlier : q <= p
                open == WindowStart(p)
            IN IF reqs[r].at < open + WindowMs THEN open ELSE reqs[r].at

\* requests p and r draw on one quota, going by their headers alone: the
\* same kiosk id, or none given (an absent header and 'unknown' are one)
SameQuota(p, r) ==
    \/ reqs[p].header = reqs[r].header
    \/ {reqs[p].header, reqs[r].header} \subseteq {"", "unknown"}

\* the start of the window request r falls in, read off the arrival times of
\* the requests of its quota alone
RECURSIVE QuotaWindowStart(_)
QuotaWindowStart(r) ==
    LET earlier == {p \in 1..(r - 1) : SameQuota(p, r)}
    IN IF earlier = {} THEN reqs[r].at
       ELSE LET p == CHOOSE p \in earlier : \A q \in earlier : q <= p
                open == QuotaWindowStart(p)
            IN IF reqs[r].at < open + WindowMs THEN open ELSE reqs[r].at

\* the requests of r's key and window that the limiter admitted
AdmittedInWindowOf(r) ==
    {p \in 1..Len(reqs) :
        SameKey(p, r) /\ WindowStart(p) = WindowStart(r) /\ ~Refused(p)}

\* the add or start events of the jobs of kiosk k, by their place in the history
EventsOf(ev, k) ==
    {i \in 1..Len(eventLog) :
        eventLog[i].ev = ev /\ KeyOf(reqs[eventLog[i].id].header) = k}

\* the time of the latest of a set of events, Null when there is none
LatestAt(events) ==
    IF events = {} THEN Null
    ELSE eventLog[CHOOSE i \in events : \A j \in events : j <= i].at

\* the jobs of kiosk k that end in this turn with a response of the given status
EndingWith(status, k) ==
    {r \in 1..Len(reqs) :
        /\ KeyOf(reqs[r].header) = k
        /\ reqs[r].pc \in {"parsing", "queued", "readFile", "generate", "overlay", "writeFile"}
        /\ reqs'[r].pc = "done"
        /\ reqs'[r].resp.status = status
        /\ Has("start", r)'}

\* the job whose session has the given id
JobOf(id) == CHOOSE r \in 1..Len(reqs) : SessionId(r) = id

(* ------------------------------ monitoring ----------------------------- *)

\* duration: session.endTime ? session.endTime - session.startTime : null.
\* Date.now() is never 0, so an end time that is set is truthy; the
\* difference with a start time that is not set is NaN, which res.json
\* writes as null.
Duration(session) ==
    IF "endTime" \in DOMAIN session /\ "startTime" \in DOMAIN session
    THEN session.endTime - session.startTime
    ELSE Null

\* recentSessions of GET /api/monitor: the last 20 entries of the registry,
\* in the Map's order, each { id, ...session, duration }
recentSessions ==
    LET n == Len(activeSessions)
        first == IF n > RecentK THEN n - RecentK + 1 ELSE 1
    IN [i \in 1..(n - first + 1) |->
           LET e == activeSessions[first + i - 1]
           IN Spread(Spread([id |-> e.id], e.val), [duration |-> Duration(e.val)])]

(* -------------------------------- claims ------------------------------- *)

\* C1: at every moment the number of generation tasks that have started
\* executing and have not yet finished is at most 2, and it is the count the
\* queue reports as pending.
C1_InFlightAtMostTwo ==
    /\ Cardinality(Running) <= 2
    /\ pending = Cardinality(Running)

\* C1 witness: a job has finished, two jobs are executing, one of them started
\* after the first finished.
C1_Witness ==
    /\ Cardinality(Running) = 2
    /\ \E r \in 1..Len(reqs), s \in Running :
          /\ reqs[r].pc = "done" /\ Has("start", r)
          /\ Pos("start", r) < Pos("start", s)
          /\ reqs[s].startTime >= reqs[r].at

\* C2: in every interval of the queue, the 1000 ms that end when its timer
\* fires next, at most 3 tasks begin executing.
C2_AtMostThreeStartsPerInterval ==
    intervalId => Cardinality(StartsIn(intervalEnd - 1000, intervalEnd)) <= 3

\* C2 witness: three tasks began in the running interval and a fourth waits
\* although a slot is free.
C2_Witness ==
    /\ intervalId
    /\ Cardinality(StartsIn(intervalEnd - 1000, intervalEnd)) = 3
    /\ Len(queue) > 0
    /\ pending < 2

C4_PriorityOvertakesWaiting ==
    \A a, b \in 1..Len(reqs) :
        ( /\ Has("add", a) /\ Has("add", b)
          /\ Pos("add", a) < Pos("add", b)
          /\ reqs[b].header = "kiosk-3" /\ reqs[a].header # "kiosk-3"
          /\ Has("start", a)
          /\ Pos("add", b) < Pos("start", a) )
        => (Has("start", b) /\ Pos("start", b) < Pos("start", a))

\* C4 witness: the kiosk-3 task was added behind a waiting task of kiosk-1 and
\* both have begun.
C4_Witness ==
    \E a, b \in 1..Len(reqs) :
        /\ Has("add", a) /\ Has("add", b) /\ Has("start", a) /\ Has("start", b)
        /\ reqs[b].header = "kiosk-3" /\ reqs[a].header # "kiosk-3"
        /\ Pos("add", a) < Pos("add", b)
        /\ Pos("add", b) < Pos("start", a)

\* C5: a request that arrives when 5 requests of its key have been admitted
\* in the same 60-second window is refused with 429 and the configured
\* message; the request that opens the next window of the key is admitted.
C5_SixthRefusedNextWindowAdmitted ==
    \A r \in 1..Len(reqs) :
        LET before == {p \in AdmittedInWindowOf(r) : p < r}
        IN /\ Cardinality(before) >= 5 =>
                /\ Refused(r)
                /\ reqs[r].resp.message = "Too many requests from this kiosk, please wait"
                /\ reqs[r].pc = "done"
           /\ (\A p \in 1..(r - 1) : SameKey(p, r) => WindowStart(p) # WindowStart(r))
                => ~Refused(r)

\* C5 witness: a key had a request refused in one window and a request
\* admitted in a later one.
C5_Witness ==
    \E p, r \in 1..Len(reqs) :
        /\ p < r /\ SameKey(p, r)
        /\ Refused(p) /\ ~Refused(r)
        /\ Cardinality({q \in AdmittedInWindowOf(p) : q < p}) = 5
        /\ WindowStart(p) < WindowStart(r)

\* C6 as stated: an admitted request has fewer than 5 admitted requests of
\* its key in the 60 seconds before it.
C6_AtMostFiveInTrailingWindow ==
    \A r \in 1..Len(reqs) :
        ~Refused(r) =>
            Cardinality({p \in 1..(r - 1) :
                            /\ SameKey(p, r) /\ ~Refused(p)
                            /\ reqs[p].at > reqs[r].at - WindowMs}) < 5

\* C6 as amended: the limiter admits at most 5 requests of a key in one of
\* the key's fixed windows.
C6_AtMostFivePerFixedWindow ==
    \A r \in 1..Len(reqs) : Cardinality(AdmittedInWindowOf(r)) <= 5

\* C6 witness: a window of a key is full, the key's next request in it was
\* refused, and the key had requests admitted in an earlier window.
C6_Witness ==
    \E r \in 1..Len(reqs) :
        /\ Refused(r)
        /\ Cardinality(AdmittedInWindowOf(r)) = 5
        /\ \E p \in 1..(r - 1) :
              SameKey(p, r) /\ ~Refused(p) /\ WindowStart(p) < WindowStart(r)

\* C7: a request that passes validation while the backlog is greater than 10
\* is answered 503 with the backlog size; that turn leaves the backlog, the
\* in-flight count, the session registry and the kiosk stats as they were,
\* and the request is never added to the queue.
C7_BusyRefusedLeavesStateAlone ==
    /\ [][\A r \in 1..Len(reqs) :
            ( /\ reqs[r].pc = "parsing" /\ reqs'[r].pc # "parsing"
              /\ ~MissingFields(reqs'[r].body)
              /\ Len(queue) > 10 )
            => /\ reqs'[r].pc = "done"
               /\ reqs'[r].resp.status = 503
               /\ reqs'[r].resp.queueSize = Len(queue)
               /\ UNCHANGED <<queue, pending, activeSessions, kioskStats, eventLog>>]_vars
    /\ [](\A r \in 1..Len(reqs) :
            StatusOf(r) = 503 => ~Has("add", r) /\ ~Has("start", r))

\* C7 witness: a valid request found 11 tasks waiting and was answered 503
\* with that size, while the 11 tasks wait on.
C7_Witness ==
    \E r \in 1..Len(reqs) :
        /\ reqs[r].pc = "done"
        /\ StatusOf(r) = 503
        /\ ~MissingFields(reqs[r].body)
        /\ reqs[r].resp.queueSize = 11
        /\ Len(queue) = 11

\* C8: in every turn, a session that is completed or failed stays exactly as
\* it is (status, end time, output reference, error), and a session whose
\* status changes goes from processing to completed or failed.
C8_SessionStatusChangesOnce ==
    [][\A i \in 1..Len(activeSessions) :
          LET id == activeSessions[i].id
              old == activeSessions[i].val
              new == MapGet(activeSessions', id)
          IN MapHas(activeSessions', id) =>
                /\ old.status \in {"completed", "failed"} => new = old
                /\ new.status # old.status =>
                      /\ old.status = "processing"
                      /\ new.status \in {"completed", "failed"}]_vars

\* C8 witness: a session completed, and a job that started later has run to
\* its end and failed, next to it.
C8_Witness ==
    \E i, j \in 1..Len(activeSessions) :
        /\ activeSessions[i].val.status = "completed"
        /\ activeSessions[i].val.outputFile.session = activeSessions[i].id
        /\ activeSessions[j].val.status = "failed"
        /\ activeSessions[j].val.error = "No image generated"
        /\ activeSessions[j].val.startTime > activeSessions[i].val.endTime

\* C9: for every registered kiosk, completed + failed is at most total.
C9_TerminalCountsWithinTotal ==
    \A k \in Registered :
        kioskStats[k].completed + kioskStats[k].failed <= kioskStats[k].total

\* C9 witness: a kiosk with a completed job, a failed job and nothing else.
C9_Witness ==
    \E k \in Registered :
        /\ kioskStats[k].completed = 1
        /\ kioskStats[k].failed = 1
        /\ kioskStats[k].total = 2

\* C10 as stated: a registered kiosk's total is the number of its jobs added
\* to the queue so far, and its lastActive the time of the latest addition.
C10_TotalCountsAddedJobs ==
    \A k \in Registered :
        /\ kioskStats[k].total = Cardinality(EventsOf("add", k))
        /\ kioskStats[k].lastActive = LatestAt(EventsOf("add", k))

\* C10 as amended: a registered kiosk's total is the number of its jobs that
\* have begun executing, and its lastActive the time the latest of them began;
\* a job waiting in the backlog is not counted.
C10_TotalCountsStartedJobs ==
    \A k \in Registered :
        /\ kioskStats[k].total = Cardinality(EventsOf("start", k))
        /\ kioskStats[k].lastActive = LatestAt(EventsOf("start", k))

\* C10 witness: a registered kiosk has jobs counted, and a job added after the
\* kiosk was last active waits in the backlog.
C10_Witness ==
    \E r \in 1..Len(reqs) :
        LET k == KeyOf(reqs[r].header)
        IN /\ k \in Registered
           /\ reqs[r].pc = "queued"
           /\ kioskStats[k].total >= 1
           /\ kioskStats[k].total < Cardinality(EventsOf("add", k))
           /\ kioskStats[k].lastActive < eventLog[Pos("add", r)].at

\* C11: a job that started and failed has a session with status failed, the
\* error's message and the time of the failure, and a 500 response with that
\* message and the kiosk id; in every turn the failed counter of a registered
\* kiosk grows by the number of its jobs that fail in the turn, and its
\* completed counter by the number that complete.
C11_FailureIsRecordedAndAnswered ==
    /\ [](\A r \in 1..Len(reqs) :
            (StatusOf(r) = 500) =>
                LET session == MapGet(activeSessions, SessionId(r))
                IN /\ Has("start", r)
                   /\ reqs[r].pc = "done"
                   /\ reqs[r].resp.error = "Failed to generate image"
                   /\ reqs[r].resp.kioskId = KeyOf(reqs[r].header)
                   /\ reqs[r].resp.details \in
                         {"Invalid background selection", "ENOENT",
                          "generateContent failed", "No image generated", "EACCES"}
                   /\ MapHas(activeSessions, SessionId(r))
                   /\ session.status = "failed"
                   /\ session.error = reqs[r].resp.details
                   /\ session.endTime >= session.startTime
                   /\ "outputFile" \notin DOMAIN session)
    /\ [][\A k \in Registered :
            /\ kioskStats'[k].failed = kioskStats[k].failed + Cardinality(EndingWith(500, k))
            /\ kioskStats'[k].completed =
                   kioskStats[k].completed + Cardinality(EndingWith(200, k))]_vars

\* C11 witness: a kiosk's two jobs failed, one at background resolution and
\* one at the artifact write.
C11_Witness ==
    \E a, b \in 1..Len(reqs) :
        /\ StatusOf(a) = 500 /\ reqs[a].resp.details = "Invalid background selection"
        /\ StatusOf(b) = 500 /\ reqs[b].resp.details = "EACCES"
        /\ reqs[a].header = "kiosk-1" /\ reqs[b].header = "kiosk-1"
        /\ kioskStats["kiosk-1"].failed = 2
        /\ kioskStats["kiosk-1"].completed = 0

\* C12: a run of the session cleanup removes every session whose start time is
\* more than 60 minutes before the run and no session whose start time is
\* within the last 60 minutes, whatever its status; after the run the registry
\* holds no session of a job that started more than 60 minutes earlier.
C12_SessionCleanupRemovesOldOnly ==
    [][sessionCleanupAt' # sessionCleanupAt =>
          LET cutoff == now - 3600000
          IN /\ \A i \in 1..Len(activeSessions) :
                    LET e == activeSessions[i]
                    IN "startTime" \in DOMAIN e.val =>
                          (MapHas(activeSessions', e.id) <=> e.val.startTime >= cutoff)
             /\ \A i \in 1..Len(activeSessions') :
                    reqs[JobOf(activeSessions'[i].id)].startTime >= cutoff]_vars

\* C12, the part that holds: a run removes exactly the sessions whose recorded
\* start time is more than 60 minutes before it.
C12_RemovesByRecordedStartTime ==
    [][sessionCleanupAt' # sessionCleanupAt =>
          \A i \in 1..Len(activeSessions) :
              LET e == activeSessions[i]
              IN "startTime" \in DOMAIN e.val =>
                    (MapHas(activeSessions', e.id) <=> e.val.startTime >= now - 3600000)]_vars

\* C13: a run of the image cleanup that ends without an error has deleted
\* exactly the files the directory held at its start whose last-modified time
\* was more than 4 hours before the run; no run, finished or not, deletes a
\* younger file or a file written after the directory was listed.
C13_CleanupDeletesOldFilesOnly ==
    \A s \in 1..Len(scans) :
        /\ scans[s].pc = "done" =>
              scans[s].deleted =
                 {f \in scans[s].listed : scans[s].now - f.mtime > 14400000}
        /\ \A f \in scans[s].deleted :
              f \in scans[s].listed /\ scans[s].now - f.mtime > 14400000
        /\ \A f \in scans[s].left \ scans[s].listed : f \notin scans[s].deleted

\* C13 witness: a run ended without an error; it deleted a file, passed over
\* a file exactly 4 hours old, and a job wrote a file while it was scanning.
C13_Witness ==
    \E s \in 1..Len(scans) :
        /\ scans[s].pc = "done"
        /\ scans[s].deleted # {}
        /\ \E f \in scans[s].listed \cap scans[s].left : scans[s].now - f.mtime = 14400000
        /\ \E f \in scans[s].left \ scans[s].listed : f.content = "composite"

\* C14: a run of the image cleanup in which fs.stat or fs.unlink failed for
\* a file has still examined the files after it and deleted those older than
\* 4 hours.
C14_CleanupGoesOnAfterError ==
    \A s \in 1..Len(scans) :
        (scans[s].pc = "failed" /\ scans[s].index > 0) =>
            \A i \in (scans[s].index + 1)..Len(scans[s].files) :
                \A f \in scans[s].listed :
                    (f.name = scans[s].files[i] /\ scans[s].now - f.mtime > 14400000)
                        => f \notin outputs

\* C15: kioskStats has the four registered kiosks and no other entry; a turn
\* in which only jobs of unregistered kiosks start or end leaves kioskStats as
\* it was; such a job is executed like any other and has its session, under
\* its kiosk id, from its start.
C15_UnregisteredKioskLeavesStatsAlone ==
    /\ [](/\ DOMAIN kioskStats = {"kiosk-1", "kiosk-2", "kiosk-3", "kiosk-4"}
          /\ \A r \in 1..Len(reqs) :
                (Has("start", r) /\ KeyOf(reqs[r].header) \notin DOMAIN kioskStats) =>
                    /\ MapHas(activeSessions, SessionId(r))
                    /\ MapGet(activeSessions, SessionId(r)).kioskId = KeyOf(reqs[r].header)
                    /\ reqs[r].pc = "done" =>
                          /\ StatusOf(r) \in {200, 500}
                          /\ MapGet(activeSessions, SessionId(r)).status =
                                IF StatusOf(r) = 200 THEN "completed" ELSE "failed")
    /\ [][(\A r \in 1..Len(reqs') :
              ( \/ (Has("start", r)' /\ (r > Len(reqs) \/ ~Has("start", r)))
                \/ (reqs'[r].pc = "done" /\ (r > Len(reqs) \/ reqs[r].pc # "done")) )
              => KeyOf(reqs'[r].header) \notin {"kiosk-1", "kiosk-2", "kiosk-3", "kiosk-4"})
           => kioskStats' = kioskStats]_vars

\* C15 witness: a request without a kiosk header ran as a job of 'unknown' to
\* its completion, one with an unknown background failed, and kioskStats is
\* as it was at start-up.
C15_Witness ==
    /\ \A k \in DOMAIN kioskStats :
          kioskStats[k] = [total |-> 0, completed |-> 0, failed |-> 0, lastActive |-> Null]
    /\ \E a, b \in 1..Len(reqs) :
          /\ reqs[a].header = "" /\ reqs[b].header = ""
          /\ StatusOf(a) = 200 /\ StatusOf(b) = 500
          /\ MapGet(activeSessions, SessionId(a)).kioskId = "unknown"
          /\ MapGet(activeSessions, SessionId(a)).status = "completed"
          /\ MapGet(activeSessions, SessionId(b)).status = "failed"

\* C16: a started job whose background is known and whose background file
\* has been read has had exactly one generation call, whatever the call's
\* outcome; a started job whose background is unknown, or whose background
\* file is not read, has had none.
C16_GenerationCalledExactlyOnce ==
    \A r \in 1..Len(reqs) :
        Has("start", r) =>
            LET fileRead ==
                    \/ reqs[r].pc \in {"generate", "overlay", "writeFile"}
                    \/ StatusOf(r) = 200
                    \/ (StatusOf(r) = 500 /\ reqs[r].resp.details \in
                           {"generateContent failed", "No image generated", "EACCES"})
            IN /\ reqs[r].calls = IF fileRead THEN 1 ELSE 0
               /\ reqs[r].body.backgroundId \notin BACKGROUNDS => ~fileRead

\* C16 witness: the generation call of one job threw and the job failed with
\* that one call; a job with an unknown background failed without a call.
C16_Witness ==
    \E a, b \in 1..Len(reqs) :
        /\ StatusOf(a) = 500 /\ reqs[a].resp.details = "generateContent failed"
        /\ reqs[a].calls = 1
        /\ StatusOf(b) = 500 /\ reqs[b].body.backgroundId = "bg-x"
        /\ reqs[b].calls = 0

\* C17: a request whose body lacks backgroundId, gender or the image is
\* answered 400; that turn leaves the queue, the session registry, the kiosk
\* stats and the outputs as they were, and the request is never added to the
\* queue and never has a session.
C17_MissingFieldsRefusedWithoutEffect ==
    /\ [][\A r \in 1..Len(reqs) :
            ( /\ reqs[r].pc = "parsing" /\ reqs'[r].pc # "parsing"
              /\ ( \/ reqs'[r].body.backgroundId = ""
                   \/ reqs'[r].body.gender = ""
                   \/ ~reqs'[r].body.selfie ) )
            => /\ reqs'[r].pc = "done"
               /\ reqs'[r].resp = [status |-> 400, error |-> "Missing required fields"]
               /\ UNCHANGED <<queue, pending, intervalCount, activeSessions, kioskStats,
                              outputs, eventLog>>]_vars
    /\ [](\A r \in 1..Len(reqs) :
            StatusOf(r) = 400 =>
                /\ ~Has("add", r) /\ ~Has("start", r)
                /\ ~MapHas(activeSessions, SessionId(r))
                /\ reqs[r].pc = "done")

\* C17 witness: a job is executing, and three requests of its kiosk, one
\* without each field, were answered 400.
C17_Witness ==
    /\ pending >= 1
    /\ \E a, b, c \in 1..Len(reqs) :
          /\ StatusOf(a) = 400 /\ reqs[a].body.backgroundId = ""
          /\ StatusOf(b) = 400 /\ reqs[b].body.gender = ""
          /\ StatusOf(c) = 400 /\ ~reqs[c].body.selfie

\* C18: a request the limiter refused is finished with its 429: it is never
\* parsed or validated, never added to the queue and never has a session; the
\* turn that refuses it leaves the queue's backlog and in-flight count, the
\* session registry and the kiosk stats as they were.
C18_RateLimitedStopsAtLimiter ==
    /\ [](\A r \in 1..Len(reqs) :
            StatusOf(r) = 429 =>
                /\ reqs[r].pc = "done"
                /\ reqs[r].body = <<>>
                /\ ~Has("add", r) /\ ~Has("start", r)
                /\ ~MapHas(activeSessions, SessionId(r)))
    /\ [][(/\ Len(reqs') > Len(reqs)
            /\ "status" \in DOMAIN reqs'[Len(reqs')].resp
            /\ reqs'[Len(reqs')].resp.status = 429) =>
            UNCHANGED <<queue, pending, intervalCount, activeSessions, kioskStats,
                        outputs, eventLog>>]_vars

\* C18 witness: with two jobs running and three waiting, the kiosk's sixth
\* request in the window was refused.
C18_Witness ==
    /\ pending = 2
    /\ Len(queue) = 3
    /\ Len(reqs) = 6
    /\ StatusOf(6) = 429
    /\ \A r \in 1..5 : Has("add", r)

\* C19: the turn in which a running job fails gives its slot back: the
\* in-flight count goes down by the jobs that end and up by the jobs that
\* start in the turn, and the task at the head of the backlog starts in that
\* very turn unless the interval's cap is used up; a task never waits while a
\* slot is free and the cap is not used up.
C19_FailureReleasesSlot ==
    /\ [][\A r \in 1..Len(reqs) :
            ( /\ reqs[r].pc \in {"readFile", "generate", "overlay", "writeFile"}
              /\ reqs'[r].pc = "done"
              /\ reqs'[r].resp.status = 500 )
            => /\ pending' = pending
                     - Cardinality({s \in 1..Len(reqs) :
                            /\ reqs[s].pc \in {"readFile", "generate", "overlay", "writeFile"}
                            /\ reqs'[s].pc = "done"})
                     + Cardinality({s \in 1..Len(reqs) :
                            /\ reqs[s].pc = "queued"
                            /\ reqs'[s].pc # "queued"})
               /\ (Len(queue) > 0 /\ intervalCount < 3)
                     => reqs'[Head(queue).run].pc # "queued"]_vars
    /\ [](Len(queue) > 0 => (pending >= 2 \/ (intervalCount >= 3 /\ intervalId)))

\* C19 witness: a job failed, and a job that had been waiting behind it
\* started at that moment and has completed.
C19_Witness ==
    \E a, b \in 1..Len(reqs) :
        /\ StatusOf(a) = 500 /\ StatusOf(b) = 200
        /\ reqs[b].at < reqs[b].startTime
        /\ reqs[b].startTime = MapGet(activeSessions, SessionId(a)).endTime
        /\ pending = 1

\* C20: the overlay step never ends a job: it hands on the composite or the
\* generated image as it was, and the job goes on to the write; what is
\* written is what the step handed on, and the session of a job whose
\* artifact is written ends completed with that artifact.
C20_OverlayFailurePassesImageThrough ==
    /\ [][\A r \in 1..Len(reqs) :
            (reqs[r].pc = "overlay" /\ reqs'[r].pc # "overlay") =>
                /\ reqs'[r].pc = "writeFile"
                /\ reqs'[r].buffer \in {"composite", reqs[r].buffer}
                /\ reqs[r].buffer = "generated"
                /\ UNCHANGED <<pending, activeSessions, kioskStats, outputs>>]_vars
    /\ [](\A r \in 1..Len(reqs) :
            StatusOf(r) = 200 =>
                LET session == MapGet(activeSessions, SessionId(r))
                IN /\ session.status = "completed"
                   /\ \E f \in outputs :
                         /\ f.name = session.outputFile
                         /\ f.name = reqs[r].resp.imageUrl
                         /\ f.content = reqs[r].buffer)

\* C20 witness: a job whose overlay step failed has completed, and its
\* artifact is the generated image without the overlay.
C20_Witness ==
    \E r \in 1..Len(reqs) :
        /\ StatusOf(r) = 200
        /\ reqs[r].buffer = "generated"
        /\ MapGet(activeSessions, SessionId(r)).status = "completed"
        /\ \E f \in outputs :
              f.name = MapGet(activeSessions, SessionId(r)).outputFile /\ f.content = "generated"

\* C21 as stated: the 429 refusal is a structured response with a field that
\* names the key whose quota was exceeded.
C21_RefusalNamesKey ==
    \A r \in 1..Len(reqs) :
        StatusOf(r) = 429 =>
            \E f \in DOMAIN reqs[r].resp \ {"status"} :
                reqs[r].resp[f] = KeyOf(reqs[r].header)

\* C21 as amended: the 429 refusal is the status and the one configured
\* message, the same for every key; nothing in it names the key.
C21_RefusalIsFixedMessage ==
    \A r \in 1..Len(reqs) :
        StatusOf(r) = 429 =>
            /\ DOMAIN reqs[r].resp = {"status", "message"}
            /\ reqs[r].resp.message = "Too many requests from this kiosk, please wait"

\* C21 witness: requests of kiosk-1 and requests without a kiosk header are
\* in the run, and one of kiosk-1 was refused.
C21_Witness ==
    \E r, s \in 1..Len(reqs) :
        /\ reqs[r].header = "kiosk-1" /\ StatusOf(r) = 429
        /\ reqs[r].resp.message = "Too many requests from this kiosk, please wait"
        /\ reqs[s].header = ""

\* C22: GET /api/monitor lists at most 20 sessions, the most recently started
\* of the registry (all of them when it holds fewer than 20); a listed session
\* that is completed or failed has duration end time minus start time, one
\* that is processing has none.
C22_MonitorListsRecentWithDuration ==
    LET listed == {recentSessions[i].id : i \in 1..Len(recentSessions)}
        held == {activeSessions[i].id : i \in 1..Len(activeSessions)}
    IN /\ Len(recentSessions) <= 20
       /\ Cardinality(listed) = IF Cardinality(held) < 20 THEN Cardinality(held) ELSE 20
       /\ listed \subseteq held
       /\ \A a \in listed, b \in held \ listed :
              reqs[JobOf(a)].startTime >= reqs[JobOf(b)].startTime
       /\ \A i \in 1..Len(recentSessions) :
              LET e == recentSessions[i]
              IN IF e.status = "processing"
                 THEN e.duration = Null
                 ELSE /\ "startTime" \in DOMAIN e
                      /\ e.duration = e.endTime - e.startTime
                      /\ e.duration >= 0

\* C23: a job whose generation call has not returned keeps its slot: every
\* job waiting on the call is counted as in flight; in every turn, a job that
\* leaves the call does so by the call's own return, never by a timeout or a
\* cancellation; and a turn that leaves two jobs waiting on their calls starts
\* no job.
C23_HungCallHoldsSlot ==
    /\ [](pending >= Cardinality({r \in 1..Len(reqs) : reqs[r].pc = "generate"}))
    /\ [][LET hung == {r \in 1..Len(reqs) :
                        reqs[r].pc = "generate" /\ reqs'[r].pc = "generate"}
              returned == {r \in 1..Len(reqs) :
                        reqs[r].pc = "generate" /\ reqs'[r].pc # "generate"}
          IN /\ pending' >= Cardinality(hung)
             /\ \A r \in returned :
                    \E outcome \in {"image", "noImage", "error"} : GenerateContent(r, outcome)
             /\ Cardinality(hung) = 2 =>
                    \A s \in 1..Len(reqs') :
                        Has("start", s)' => (s <= Len(reqs) /\ Has("start", s))]_vars

\* C23 witness: two jobs that started at time 0 still wait on their calls an
\* hour and a half later; the session cleanup has removed their sessions, and
\* a third job has been waiting in the backlog since time 0.
C23_Witness ==
    /\ now = 5400000
    /\ sessionCleanupAt > 5400000
    /\ pending = 2
    /\ Cardinality({r \in 1..Len(reqs) :
                        /\ reqs[r].pc = "generate" /\ reqs[r].startTime = 0
                        /\ ~MapHas(activeSessions, SessionId(r))}) = 2
    /\ \E s \in 1..Len(reqs) : reqs[s].pc = "queued" /\ reqs[s].at = 0

\* C24: the test driver has at most one request without a response at a
\* time, sends a request no sooner than requestDelay after the response to
\* the one before, and none of its requests is refused with 429.
C24_DriverStaysUnderLimit ==
    /\ Cardinality({r \in 1..Len(reqs) : reqs[r].pc # "done"}) <= 1
    /\ \A r \in 2..Len(reqs) : reqs[r].at >= AnsweredAt(r - 1) + 2000
    /\ \A r \in 1..Len(reqs) : StatusOf(r) # 429

\* C24, the part that holds: the driver's requests are strictly sequential
\* and spaced by requestDelay.
C24_DriverIsSequential ==
    /\ Cardinality({r \in 1..Len(reqs) : reqs[r].pc # "done"}) <= 1
    /\ \A r \in 2..Len(reqs) : reqs[r].at >= AnsweredAt(r - 1) + 2000

\* C25: every record of the session registry has a kiosk id and a start
\* time, and a job whose session the session cleanup has removed does not
\* bring a record back when it completes or fails.
C25_RecordsKeepKioskAndStart ==
    /\ [](\A i \in 1..Len(activeSessions) :
             {"kioskId", "startTime"} \subseteq DOMAIN activeSessions[i].val)
    /\ [][\A r \in 1..Len(reqs) :
             (Has("start", r) /\ ~MapHas(activeSessions, SessionId(r)))
                 => ~MapHas(activeSessions', SessionId(r))]_vars

\* C26: the backlog never holds more than 11 tasks; a turn makes it longer
\* by at most one task, and only a turn that found it no longer than 10.
C26_BacklogAtMostEleven ==
    /\ [](Len(queue) <= 11)
    /\ [][Len(queue') > Len(queue) =>
             (Len(queue) <= 10 /\ Len(queue') = Len(queue) + 1)]_vars

\* C26 witness: a job has ended and given its slot to a task that was
\* waiting, the backlog has grown to 11 behind two running jobs, and a request
\* that found it so was answered 503.
C26_Witness ==
    /\ Len(queue) = 11
    /\ pending = 2
    /\ \E r \in 1..Len(reqs) : StatusOf(r) = 500
    /\ Cardinality(Running) = 2
    /\ Cardinality(EventsOf("start", "kiosk-1")) = 3
    /\ \E r \in 1..Len(reqs) : StatusOf(r) = 503

\* C27: for every registered kiosk, total is completed plus failed plus the
\* number of the kiosk's jobs that have started and not ended; when none of
\* its jobs is executing, total is completed plus failed.
C27_TotalIsEndedPlusExecuting ==
    \A k \in Registered :
        LET executing == {r \in Running : KeyOf(reqs[r].header) = k}
        IN /\ kioskStats[k].total =
                 kioskStats[k].completed + kioskStats[k].failed + Cardinality(executing)
           /\ executing = {} =>
                 kioskStats[k].total = kioskStats[k].completed + kioskStats[k].failed

\* C27 witness: a kiosk with one job completed and one executing, counted 2.
C27_Witness ==
    /\ kioskStats["kiosk-1"].total = 2
    /\ kioskStats["kiosk-1"].completed = 1
    /\ kioskStats["kiosk-1"].failed = 0
    /\ \E r \in Running : reqs[r].header = "kiosk-1" /\ reqs[r].pc = "generate"

C29_DecisionByOwnKeyOnly ==
    \A r \in 1..Len(reqs) :
        StatusOf(r) = 429 <=>
            Cardinality({p \in 1..(r - 1) :
                            /\ SameQuota(p, r)
                            /\ QuotaWindowStart(p) = QuotaWindowStart(r)}) >= 5

\* C29 witness: requests without the header and requests with the header
\* 'unknown' used up one quota together, a request without the header was
\* refused, and a request of kiosk-1 that came after it was admitted.
C29_Witness ==
    \E r, s \in 1..Len(reqs) :
        /\ r < s
        /\ reqs[r].header = "" /\ StatusOf(r) = 429
        /\ Cardinality({p \in 1..(r - 1) : reqs[p].header = ""}) = 3
        /\ Cardinality({p \in 1..(r - 1) : reqs[p].header = "unknown"}) = 2
        /\ reqs[s].header = "kiosk-1" /\ StatusOf(s) # 429
        /\ reqs[s].at = reqs[r].at

\* C28: when every call a job awaits returns, every job added to the queue
\* eventually starts, also a job of priority 0 while kiosk-3 keeps sending
\* within its rate limit: the job of kiosk-1, once it waits in the backlog,
\* eventually starts.
C28_PriorityZeroJobStarts ==
    (reqs[1].pc = "queued") ~> (reqs[1].pc \in {"readFile", "generate", "done"})

====
